---- MODULE Spec2Model ----
(***************************************************************************)
(* Session lifecycle controller of koishi-plugin-puppeteer (src/index.ts): *)
(* startBrowser / stopBrowser / ensureConnected / page, run by concurrent  *)
(* asynchronous callers on one event loop.  Every action is one            *)
(* synchronous segment of the code: from the resumption after an `await`   *)
(* to the next suspension.  The execution engine (puppeteer.launch /       *)
(* connect, Browser, Page) is the environment: each awaited engine call    *)
(* resolves or rejects nondeterministically.                               *)
(*                                                                         *)
(* Strings that the code parses (endpoints) are sequences of one-character *)
(* strings, so that `new URL(endpoint)` is modelled by what it does.       *)
(***************************************************************************)
EXTENDS Integers, Sequences, FiniteSets, TLC

VARIABLES
    config,             \* this.config (fixed after construction)
    svc,                \* lifecycle of the service as its host drives it
    started,            \* facade operations started so far
    browser,            \* this.browser: 0 (null) or the id of an engine handle
    browserWSEndpoint,  \* this.browserWSEndpoint
    activePageCount,    \* this.activePageCount
    handles,            \* engine: the handles launch/connect returned
    pages,              \* engine: the pages newPage returned
    proc,               \* the asynchronous callers: position and locals
    input,              \* endpoint classifier harness: the string under test
    parts,              \* endpoint classifier harness: how `input` was built
    output,             \* endpoint classifier harness: the classification
    server,             \* FontServer.server: 0 (null) or the id of an http server
    port,               \* FontServer.port: 0 (null) or a port number
    fontPath,           \* FontServer.fontPath
    servers,            \* node:http: the servers createServer returned
    files,              \* node:fs: the regular files there are
    fcalls,             \* FontServer operations started so far
    fproc,              \* the callers of the FontServer: position and locals
    request,            \* request handler harness: the request and the file
    response            \* request handler harness: the response sent

vars == <<config, svc, started, browser, browserWSEndpoint, activePageCount, handles,
          pages, proc, input, parts, output, server, port, fontPath, servers,
          files, fcalls, fproc, request, response>>

sessionVars == <<config, svc, started, browser, browserWSEndpoint, activePageCount,
                 handles, pages, proc>>

classifierVars == <<input, parts, output>>

fontVars == <<server, port, fontPath, servers, files, fcalls, fproc, request,
              response>>

serverVars == <<server, port, fontPath, servers, files, fcalls, fproc>>

handlerVars == <<request, response>>

-----------------------------------------------------------------------------
(* Bounds of the model                                                     *)

MaxHandles == 3     \* engine handles in use at one time
MaxPages == 2       \* engine pages in use at one time
MaxRetriesBound == 2 \* largest configured maxReconnectRetries explored
MaxCalls == 4       \* facade operations the callers start in one behaviour

MaxServers == 3     \* http servers in use at one time
MaxPorts == 2       \* ports the operating system hands out
MaxFontCalls == 4   \* FontServer operations the callers start in one behaviour

Procs == {"t1", "t2"}

-----------------------------------------------------------------------------
(* Strings                                                                 *)

Null == <<>>   \* null, undefined and '' alike: the code only tests truthiness

Str_ws    == <<"w", "s">>
Str_wss   == <<"w", "s", "s">>
Str_WS    == <<"W", "S">>
Str_http  == <<"h", "t", "t", "p">>
Str_https == <<"h", "t", "t", "p", "s">>
Str_ftp   == <<"f", "t", "p">>
Str_x     == <<"x">>
Str_1x    == <<"1", "x">>

Colon == <<":">>
Sep_slashes == <<":", "/", "/">>

\* a direct socket address as Browser.wsEndpoint() reports it
WsEndpointOfHandle == Str_ws \o Sep_slashes \o <<"b">>

LowerOf(c) ==
    CASE c = "W" -> "w"
      [] c = "S" -> "s"
      [] c = "H" -> "h"
      [] c = "T" -> "t"
      [] c = "P" -> "p"
      [] c = "F" -> "f"
      [] OTHER -> c

ToLowerCase(s) == [i \in 1..Len(s) |-> LowerOf(s[i])]

IsAlpha(c) == LowerOf(c) \in {"w", "s", "h", "t", "p", "f", "x", "b"}
IsDigit(c) == c \in {"0", "1", "4"}
IsSchemeChar(c) == IsAlpha(c) \/ IsDigit(c) \/ c \in {"+", "-", "."}

-----------------------------------------------------------------------------
(* new URL(s), WHATWG URL parsing without a base URL                       *)

\* position of the first ":" of s, 0 when there is none
ColonPos(s) ==
    IF \E i \in 1..Len(s) : s[i] = ":"
    THEN CHOOSE i \in 1..Len(s) : s[i] = ":" /\ \A j \in 1..(i - 1) : s[j] # ":"
    ELSE 0

\* scheme start state / scheme state: alpha, then alphanumerics + - . up to ":"
HasScheme(s) ==
    /\ ColonPos(s) > 1
    /\ IsAlpha(s[1])
    /\ \A i \in 2..(ColonPos(s) - 1) : IsSchemeChar(s[i])

\* URL.protocol: the scheme, lower-cased, with its ":"
Protocol(s) == ToLowerCase(SubSeq(s, 1, ColonPos(s)))

AfterScheme(s) == SubSeq(s, ColonPos(s) + 1, Len(s))

SpecialProtocols ==
    {Str_ws \o Colon, Str_wss \o Colon, Str_http \o Colon, Str_https \o Colon,
     Str_ftp \o Colon}

\* special authority (ignore) slashes state: leading slashes are skipped
RECURSIVE StripSlashes(_)
StripSlashes(s) ==
    IF s # <<>> /\ Head(s) = "/" THEN StripSlashes(Tail(s)) ELSE s

\* host state: the host runs up to the next "/"
RECURSIVE HostOf(_)
HostOf(s) ==
    IF s = <<>> \/ Head(s) = "/" THEN <<>> ELSE <<Head(s)>> \o HostOf(Tail(s))

\* a special scheme needs a non-empty host without forbidden code points
HostOk(s) ==
    LET host == HostOf(StripSlashes(s)) IN
    /\ host # <<>>
    /\ \A i \in 1..Len(host) : host[i] # " "

\* TRUE iff new URL(s) returns, FALSE iff it throws TypeError
UrlParses(s) ==
    /\ HasScheme(s)
    /\ (Protocol(s) \in SpecialProtocols => HostOk(AfterScheme(s)))

-----------------------------------------------------------------------------
(* Errors: message class and, for a wrapping error, the message it embeds  *)

Err(msg, cause) == [msg |-> msg, cause |-> cause]
NoErr == Err("", "")

\* e.message?.includes(s)
Includes(e, s) == e.msg = s \/ e.cause = s

NoOptions == [browserWSEndpoint |-> Null, browserURL |-> Null]

-----------------------------------------------------------------------------
(* Endpoint classification of startBrowser                                 *)

\* as ClassifyEndpoint, without the wss: case
ClassifyEndpoint_onlyWs(endpoint) ==
    IF ~UrlParses(endpoint)
    THEN [kind |-> "Invalid", reason |-> "unparseable URL", options |-> NoOptions]
    ELSE IF Protocol(endpoint) = Str_ws \o Colon
    THEN [kind |-> "DirectSocket", reason |-> "",
          options |-> [browserWSEndpoint |-> endpoint, browserURL |-> Null]]
    ELSE IF Protocol(endpoint) \in {Str_http \o Colon, Str_https \o Colon}
    THEN [kind |-> "Discovery", reason |-> "",
          options |-> [browserWSEndpoint |-> Null, browserURL |-> endpoint]]
    ELSE [kind |-> "Invalid", reason |-> "unsupported scheme", options |-> NoOptions]

\* as ClassifyEndpoint, with the protocol check after the ws: case dropped
ClassifyEndpoint_lax(endpoint) ==
    IF ~UrlParses(endpoint)
    THEN [kind |-> "Invalid", reason |-> "unparseable URL", options |-> NoOptions]
    ELSE IF Protocol(endpoint) \in {Str_ws \o Colon, Str_wss \o Colon}
    THEN [kind |-> "DirectSocket", reason |-> "",
          options |-> [browserWSEndpoint |-> endpoint, browserURL |-> Null]]
    ELSE [kind |-> "Discovery", reason |-> "",
          options |-> [browserWSEndpoint |-> Null, browserURL |-> endpoint]]

ClassifyEndpoint(endpoint) ==
    IF ~UrlParses(endpoint)
    THEN [kind |-> "Invalid", reason |-> "unparseable URL", options |-> NoOptions]
    ELSE IF Protocol(endpoint) \in {Str_ws \o Colon, Str_wss \o Colon}
    THEN [kind |-> "DirectSocket", reason |-> "",
          options |-> [browserWSEndpoint |-> endpoint, browserURL |-> Null]]
    ELSE IF Protocol(endpoint) \in {Str_http \o Colon, Str_https \o Colon}
    THEN [kind |-> "Discovery", reason |-> "",
          options |-> [browserWSEndpoint |-> Null, browserURL |-> endpoint]]
    ELSE [kind |-> "Invalid", reason |-> "unsupported scheme", options |-> NoOptions]

-----------------------------------------------------------------------------
(* Configuration                                                           *)

ExecutablePath == <<"/", "b">>

SessionEndpoints ==
    { Null,
      Str_ws \o Sep_slashes \o <<"h">>,
      Str_http \o Sep_slashes \o <<"h">>,
      Str_ftp \o Sep_slashes \o <<"h">>,
      <<"h">> }

\* The schema has immediateClose among the local-browser settings only.
\* Fields the code never reads under a given setting are held at one value:
\* the reconnect policy is not read in on-demand mode (immediateClose), and
\* the interval and the retry budget are not read when reconnecting is off.
Configs ==
    { c \in [ remote : BOOLEAN,
              endpoint : SessionEndpoints,
              executable : {Null, ExecutablePath},
              immediateClose : BOOLEAN,
              enableReconnect : BOOLEAN,
              reconnectInterval : {0, 1},
              maxReconnectRetries : 0..MaxRetriesBound ] :
        /\ (c.remote => c.executable = Null /\ ~c.immediateClose)
        /\ (~c.remote => c.endpoint = Null)
        /\ (c.immediateClose \/ ~c.enableReconnect =>
               c.reconnectInterval = 0 /\ c.maxReconnectRetries = 0) }

\* this.executable = executablePath || find()
Executable == config.executable

\* the puppeteer.restart command is registered (constructor)
RestartRegistered == ~config.immediateClose

-----------------------------------------------------------------------------
(* State of one asynchronous caller                                        *)

IdleProc ==
    [ pc |-> "idle",            \* the await the caller is suspended at
      stack |-> <<>>,           \* continuations of the async calls in progress
      err |-> NoErr,            \* the error the last finished call threw
      connectOptions |-> NoOptions,
      retryCount |-> 0,
      e |-> NoErr,              \* the error caught in ensureConnected
      reconnectError |-> NoErr, \* the error caught from the 404 fallback
      slept |-> 0,              \* ensureConnected: the time spent in setTimeout
                                \* since it was called or a connect call failed
      h |-> 0,                  \* the handle an awaited engine call is on
      page |-> 0,               \* the local `page` of page()
      calls |-> 0,              \* launch/connect calls issued by the running
                                \* ensureConnected / start / restart
      fallbacks |-> 0 ]         \* those of them issued by the 404 fallback

\* the running async function finishes with `error` (NoErr: returns); its
\* caller resumes at the continuation on top of stk; when there is none the
\* facade operation is over and its frame is gone
Ret(r, stk, error) ==
    IF stk = <<>>
    THEN IdleProc
    ELSE [r EXCEPT !.pc = "ret", !.stack = stk, !.err = error]

At(p, label) == proc[p].pc = label

Resumes(p, label) ==
    /\ proc[p].pc = "ret"
    /\ Head(proc[p].stack) = label

-----------------------------------------------------------------------------
(* The engine's objects.  A handle is "connected" from the launch/connect  *)
(* that returned it until its connection ends, then "dead"; a dead handle  *)
(* and a closed page that nothing refers to any more are forgotten (their  *)
(* slot is free again), since no code can reach them.                      *)

NoPage == [h |-> 0, open |-> FALSE, blank |-> TRUE, held |-> FALSE]

Connected == browser # 0 /\ handles[browser] = "connected"

HasFreeHandle == \E h \in 1..MaxHandles : handles[h] = "free"

NewHandle ==
    CHOOSE h \in 1..MaxHandles :
        handles[h] = "free" /\ \A g \in 1..(h - 1) : handles[g] # "free"

HasFreePage == \E i \in 1..MaxPages : pages[i].h = 0

NewPage ==
    CHOOSE i \in 1..MaxPages :
        pages[i].h = 0 /\ \A j \in 1..(i - 1) : pages[j].h # 0

\* the pages once the connection of handle h is gone: none of them is open
PagesWithout(h) ==
    [i \in 1..MaxPages |->
        IF pages[i].h = h THEN [pages[i] EXCEPT !.open = FALSE] ELSE pages[i]]

ReachablePages(pgs, pr) ==
    [i \in 1..MaxPages |->
        IF ~pgs[i].open /\ ~pgs[i].held /\ \A p \in Procs : pr[p].page # i
        THEN NoPage
        ELSE pgs[i]]

ReachableHandles(hs, b, pgs, pr) ==
    [h \in 1..MaxHandles |->
        IF /\ hs[h] = "dead"
           /\ h # b
           /\ \A i \in 1..MaxPages : pgs[i].h # h
           /\ \A p \in Procs : pr[p].h # h
        THEN "free"
        ELSE hs[h]]

\* the next state of the session
Commit(hs, b, ws, count, pgs, pr) ==
    LET pgs2 == ReachablePages(pgs, pr) IN
    /\ handles' = ReachableHandles(hs, b, pgs2, pr)
    /\ browser' = b
    /\ browserWSEndpoint' = ws
    /\ activePageCount' = count
    /\ pages' = pgs2
    /\ proc' = pr
    /\ UNCHANGED <<config, svc, started, input, parts, output, fontVars>>

\* a step that changes only the caller's own frame
Local(p, r) ==
    Commit(handles, browser, browserWSEndpoint, activePageCount, pages,
           [proc EXCEPT ![p] = r])

-----------------------------------------------------------------------------
(* startBrowser                                                            *)

\* the synchronous prefix: up to the awaited connect / launch, or the throw
StartBrowser(r, stk) ==
    IF config.remote
    THEN IF config.endpoint = Null
         THEN Ret(r, stk, Err("endpoint required", ""))
         ELSE LET c == ClassifyEndpoint(config.endpoint) IN
              IF c.kind = "Invalid"
              THEN Ret(r, stk, Err(c.reason, ""))
              ELSE [r EXCEPT !.pc = "sb_connect", !.stack = stk,
                             !.connectOptions = c.options,
                             !.calls = @ + 1]
    ELSE IF Executable = Null
         THEN Ret(r, stk, Err("executable not found", ""))
         ELSE [r EXCEPT !.pc = "sb_launch", !.stack = stk, !.calls = @ + 1]

\* as SavedEndpoint, without the wsEndpoint() of the new handle
SavedEndpoint_none(options) == options.browserWSEndpoint

\* the endpoint saved after a successful remote connect
SavedEndpoint(options) ==
    IF options.browserWSEndpoint # Null
    THEN options.browserWSEndpoint
    ELSE WsEndpointOfHandle

\* the error startBrowser rethrows for a failed connect
WrapConnectError(m) ==
    IF m = "ECONNREFUSED" THEN Err("cannot reach remote browser", "")
    ELSE IF m = "not opened" THEN Err("remote browser refused", "")
    ELSE Err("connect failed", m)

\* the error startBrowser rethrows for a failed launch
WrapLaunchError(m) == Err("launch failed", m)

\* messages the engine rejects with, one for each class the code tells apart
ConnectErrors == {"ECONNREFUSED", "not opened", "404"}
ReconnectErrors == {"ECONNREFUSED", "404"}
LaunchErrors == {"Failed to launch", "timeout"}

SBConnectOk(p) ==
    /\ At(p, "sb_connect")
    /\ HasFreeHandle
    /\ Commit([handles EXCEPT ![NewHandle] = "connected"], NewHandle,
              SavedEndpoint(proc[p].connectOptions), activePageCount, pages,
              [proc EXCEPT ![p] = Ret(@, @.stack, NoErr)])

\* as SBConnectFail, with one more connect after the first one failed
SBConnectFail_retry(p) ==
    /\ At(p, "sb_connect")
    /\ \E m \in ConnectErrors :
           Local(p, IF proc[p].calls < 2
                    THEN [proc[p] EXCEPT !.calls = @ + 1]
                    ELSE Ret(proc[p], proc[p].stack, WrapConnectError(m)))

SBConnectFail(p) ==
    /\ At(p, "sb_connect")
    /\ \E m \in ConnectErrors :
           Local(p, Ret(proc[p], proc[p].stack, WrapConnectError(m)))

SBLaunchOk(p) ==
    /\ At(p, "sb_launch")
    /\ HasFreeHandle
    /\ Commit([handles EXCEPT ![NewHandle] = "connected"], NewHandle,
              WsEndpointOfHandle, activePageCount, pages,
              [proc EXCEPT ![p] = Ret(@, @.stack, NoErr)])

SBLaunchFail(p) ==
    /\ At(p, "sb_launch")
    /\ \E m \in LaunchErrors :
           Local(p, Ret(proc[p], proc[p].stack, WrapLaunchError(m)))

-----------------------------------------------------------------------------
(* stopBrowser                                                             *)

\* the synchronous prefix: up to the awaited disconnect / close
StopBrowser(r, stk) ==
    IF browser # 0
    THEN [r EXCEPT !.pc = "stop_close", !.stack = stk, !.h = browser]
    ELSE Ret(r, stk, NoErr)

\* disconnect() / close() resolved: the three fields are cleared
StopCloseOk(p) ==
    /\ At(p, "stop_close")
    /\ Commit([handles EXCEPT ![proc[p].h] = "dead"], 0, Null, 0, PagesWithout(proc[p].h),
              [proc EXCEPT ![p] = Ret([@ EXCEPT !.h = 0], @.stack, NoErr)])

\* as StopCloseThrow, with the error of disconnect() / close() thrown on
StopCloseThrow_rethrow(p) ==
    /\ At(p, "stop_close")
    /\ Local(p, Ret([proc[p] EXCEPT !.h = 0], proc[p].stack,
                    Err("close failed", "")))

\* disconnect() / close() rejected: the catch logs, nothing is cleared
StopCloseThrow(p) ==
    /\ At(p, "stop_close")
    /\ Local(p, Ret([proc[p] EXCEPT !.h = 0], proc[p].stack, NoErr))

-----------------------------------------------------------------------------
(* ensureConnected                                                         *)

\* maxRetries = this.config.maxReconnectRetries ?? 3 (the field is set here)
maxRetries == config.maxReconnectRetries

\* as ReconnectOptions, with the configured endpoint before the saved one
ReconnectOptions_configFirst ==
    IF config.endpoint # Null /\ UrlParses(config.endpoint)
    THEN IF Protocol(config.endpoint) \in {Str_ws \o Colon, Str_wss \o Colon}
         THEN [browserWSEndpoint |-> config.endpoint, browserURL |-> Null]
         ELSE IF Protocol(config.endpoint) \in {Str_http \o Colon, Str_https \o Colon}
         THEN [browserWSEndpoint |-> Null, browserURL |-> config.endpoint]
         ELSE NoOptions
    ELSE [browserWSEndpoint |-> browserWSEndpoint, browserURL |-> Null]

\* connectOptions of a reconnect attempt: the saved endpoint first, then the
\* configured one; a configured endpoint that does not parse, or has another
\* scheme, leaves the options without a target
ReconnectOptions ==
    IF browserWSEndpoint # Null
    THEN [browserWSEndpoint |-> browserWSEndpoint, browserURL |-> Null]
    ELSE IF config.endpoint # Null /\ UrlParses(config.endpoint)
    THEN IF Protocol(config.endpoint) \in {Str_ws \o Colon, Str_wss \o Colon}
         THEN [browserWSEndpoint |-> config.endpoint, browserURL |-> Null]
         ELSE IF Protocol(config.endpoint) \in {Str_http \o Colon, Str_https \o Colon}
         THEN [browserWSEndpoint |-> Null, browserURL |-> config.endpoint]
         ELSE NoOptions
    ELSE NoOptions

\* originalOptions of the 404 fallback, built from the configured endpoint
OriginalOptions ==
    IF config.endpoint # Null
    THEN IF Protocol(config.endpoint) \in {Str_ws \o Colon, Str_wss \o Colon}
         THEN [browserWSEndpoint |-> config.endpoint, browserURL |-> Null]
         ELSE IF Protocol(config.endpoint) \in {Str_http \o Colon, Str_https \o Colon}
         THEN [browserWSEndpoint |-> Null, browserURL |-> config.endpoint]
         ELSE NoOptions
    ELSE NoOptions

\* new URL(this.config.endpoint) of the fallback throws (inside its try)
OriginalOptionsThrows == config.endpoint # Null /\ ~UrlParses(config.endpoint)

\* a reconnect attempt issues puppeteer.connect
AttemptConnect(r) ==
    [r EXCEPT !.pc = "ec_connect", !.connectOptions = ReconnectOptions,
              !.calls = @ + 1]

\* while (retryCount < maxRetries) { try { wait reconnectInterval; connect
LoopHead(r) ==
    IF r.retryCount < maxRetries
    THEN IF config.reconnectInterval > 0
         THEN [r EXCEPT !.pc = "ec_sleep"]
         ELSE AttemptConnect(r)
    ELSE Ret(r, r.stack, NoErr)

\* as BudgetCheck, giving up one attempt early
BudgetCheck_early(r) ==
    IF r.retryCount + 1 >= maxRetries
    THEN Ret(r, r.stack, Err("reconnect failed", r.e.msg))
    ELSE [r EXCEPT !.pc = "ec_backoff", !.reconnectError = NoErr]

\* as BudgetCheck, with the error of the fallback as the cause when the
\* attempt ended in one
BudgetCheck_fallbackCause(r) ==
    IF r.retryCount >= maxRetries
    THEN Ret(r, r.stack,
             Err("reconnect failed",
                 IF r.reconnectError # NoErr
                 THEN r.reconnectError.msg ELSE r.e.msg))
    ELSE [r EXCEPT !.pc = "ec_backoff", !.reconnectError = NoErr]

\* the end of the catch block: the budget check; the terminal error embeds
\* e.message, and reconnectError goes out of scope when the loop goes on
BudgetCheck(r) ==
    IF r.retryCount >= maxRetries
    THEN Ret(r, r.stack, Err("reconnect failed", r.e.msg))
    ELSE [r EXCEPT !.pc = "ec_backoff", !.reconnectError = NoErr]

\* the target check before the loop
HasReconnectEndpoint == browserWSEndpoint # Null \/ config.endpoint # Null

\* as ReconnectDisabled, with the switch ignored
ReconnectDisabled_never == FALSE

\* the reconnect switch
ReconnectDisabled == ~config.enableReconnect

\* as EnsureConnected, without the return on a connected handle
EnsureConnected_always(r0, stk) ==
    LET r == [r0 EXCEPT !.calls = 0, !.fallbacks = 0, !.retryCount = 0,
                        !.e = NoErr] IN
    IF config.immediateClose
    THEN StartBrowser(r, stk)
    ELSE IF ReconnectDisabled
    THEN Ret(r, stk, Err("reconnection disabled", ""))
    ELSE IF ~HasReconnectEndpoint
    THEN Ret(r, stk, Err("no reconnection target", ""))
    ELSE LoopHead([r EXCEPT !.stack = stk])

\* as EnsureConnected, without the on-demand branch
EnsureConnected_noOnDemand(r0, stk) ==
    LET r == [r0 EXCEPT !.calls = 0, !.fallbacks = 0, !.retryCount = 0,
                        !.e = NoErr] IN
    IF Connected
    THEN Ret(r, stk, NoErr)
    ELSE IF ReconnectDisabled
    THEN Ret(r, stk, Err("reconnection disabled", ""))
    ELSE IF ~HasReconnectEndpoint
    THEN Ret(r, stk, Err("no reconnection target", ""))
    ELSE LoopHead([r EXCEPT !.stack = stk])

\* the synchronous prefix of ensureConnected
EnsureConnected(r0, stk) ==
    LET r == [r0 EXCEPT !.calls = 0, !.fallbacks = 0, !.retryCount = 0,
                        !.e = NoErr] IN
    IF config.immediateClose /\ ~Connected
    THEN StartBrowser(r, stk)      \* await this.startBrowser(); return
    ELSE IF Connected
    THEN Ret(r, stk, NoErr)
    ELSE IF ReconnectDisabled
    THEN Ret(r, stk, Err("reconnection disabled", ""))
    ELSE IF ~HasReconnectEndpoint
    THEN Ret(r, stk, Err("no reconnection target", ""))
    ELSE LoopHead([r EXCEPT !.stack = stk])

\* the wait of reconnectInterval before the attempt is over
ECSleepDone(p) ==
    /\ At(p, "ec_sleep")
    /\ Local(p, AttemptConnect([proc[p] EXCEPT
                                   !.slept = @ + config.reconnectInterval]))

\* puppeteer.connect resolved: this.browser.connected holds, the endpoint of
\* the new handle is saved
ECConnectOk(p) ==
    /\ At(p, "ec_connect")
    /\ HasFreeHandle
    /\ Commit([handles EXCEPT ![NewHandle] = "connected"], NewHandle,
              WsEndpointOfHandle, activePageCount, pages,
              [proc EXCEPT ![p] = Ret(@, @.stack, NoErr)])

\* as ECConnectFail, without retryCount++
ECConnectFail_uncounted(p) ==
    /\ At(p, "ec_connect")
    /\ \E m \in ReconnectErrors \ {"404"} :
           Local(p, BudgetCheck([proc[p] EXCEPT !.e = Err(m, ""),
                                                !.slept = 0]))

\* puppeteer.connect rejected with a message that has no 404
ECConnectFail(p) ==
    /\ At(p, "ec_connect")
    /\ \E m \in ReconnectErrors \ {"404"} :
           Local(p, BudgetCheck([proc[p] EXCEPT !.retryCount = @ + 1,
                                                !.e = Err(m, ""),
                                                !.slept = 0]))

\* as ECConnectFail404, with the budget checked before the fallback
ECConnectFail404_counted(p) ==
    /\ At(p, "ec_connect")
    /\ LET r == [proc[p] EXCEPT !.retryCount = @ + 1, !.e = Err("404", ""),
                                !.slept = 0] IN
       Commit(handles, browser, Null, activePageCount, pages,
              [proc EXCEPT ![p] =
                  IF OriginalOptionsThrows \/ r.retryCount >= maxRetries
                  THEN BudgetCheck(r)
                  ELSE [r EXCEPT !.pc = "ec_fallback",
                                 !.connectOptions = OriginalOptions,
                                 !.calls = @ + 1,
                                 !.fallbacks = @ + 1]])

\* puppeteer.connect rejected with a 404: the saved endpoint is dropped and
\* the configured one is tried
ECConnectFail404(p) ==
    /\ At(p, "ec_connect")
    /\ LET r == [proc[p] EXCEPT !.retryCount = @ + 1, !.e = Err("404", ""),
                                !.slept = 0] IN
       Commit(handles, browser, Null, activePageCount, pages,
              [proc EXCEPT ![p] =
                  IF OriginalOptionsThrows
                  THEN BudgetCheck(r)
                  ELSE [r EXCEPT !.pc = "ec_fallback",
                                 !.connectOptions = OriginalOptions,
                                 !.calls = @ + 1,
                                 !.fallbacks = @ + 1]])

ECFallbackOk(p) ==
    /\ At(p, "ec_fallback")
    /\ HasFreeHandle
    /\ Commit([handles EXCEPT ![NewHandle] = "connected"], NewHandle,
              WsEndpointOfHandle, activePageCount, pages,
              [proc EXCEPT ![p] = Ret(@, @.stack, NoErr)])

\* the fallback's own error is logged only
ECFallbackFail(p) ==
    /\ At(p, "ec_fallback")
    /\ \E m \in ReconnectErrors :
           Local(p, BudgetCheck([proc[p] EXCEPT !.reconnectError = Err(m, "")]))

\* the wait of reconnectInterval * retryCount is over
ECBackoffDone(p) ==
    /\ At(p, "ec_backoff")
    /\ Local(p, LoopHead([proc[p] EXCEPT
                             !.slept = @ + config.reconnectInterval
                                             * proc[p].retryCount]))

-----------------------------------------------------------------------------
(* page(), the wrapped page.close() and checkAndCloseBrowser               *)

\* page.close() is called: the wrapper (or the engine's close) awaits the
\* engine's close first
PageClose(r, stk, pg) ==
    [r EXCEPT !.pc = "cl_close", !.stack = stk, !.page = pg]

\* the synchronous prefix of checkAndCloseBrowser, run with the counter at
\* count; stopBrowser is its last statement and never throws
CheckAndCloseBrowser(r, stk, count) ==
    IF ~config.immediateClose
    THEN Ret(r, stk, NoErr)
    ELSE IF count <= 0 /\ browser # 0
    THEN [r EXCEPT !.pc = "ccb_pages", !.stack = stk, !.h = browser]
    ELSE Ret(r, stk, NoErr)

\* the pages of handle h that are open and not about:blank
NonBlankPages(h) ==
    {i \in 1..MaxPages : pages[i].h = h /\ pages[i].open /\ ~pages[i].blank}

\* resumption of page() after ensureConnected
PgEnsured(p) ==
    /\ Resumes(p, "pg_1")
    /\ LET r == proc[p]
           stk == Tail(r.stack) IN
       Local(p,
           IF r.err # NoErr
           THEN Ret(r, stk, r.err)
           ELSE IF browser = 0
           THEN Ret(r, stk, Err("TypeError", ""))
           ELSE [r EXCEPT !.pc = "pg_newPage", !.stack = stk, !.h = browser])

PgNewPageOk(p) ==
    /\ At(p, "pg_newPage")
    /\ handles[proc[p].h] = "connected"
    /\ HasFreePage
    /\ Commit(handles, browser, browserWSEndpoint, activePageCount,
              [pages EXCEPT ![NewPage] =
                  [h |-> proc[p].h, open |-> TRUE, blank |-> TRUE, held |-> FALSE]],
              [proc EXCEPT ![p] =
                  [@ EXCEPT !.pc = "pg_inject", !.page = NewPage, !.h = 0]])

PgNewPageFail(p) ==
    /\ At(p, "pg_newPage")
    /\ Local(p, Ret([proc[p] EXCEPT !.h = 0], proc[p].stack,
                    Err("newPage failed", "")))

\* the counter after a page is created
Incremented(n) == IF config.immediateClose THEN n + 1 ELSE n

\* injectDefaultFont is over (it swallows its errors): in on-demand mode the
\* page is counted and its close wrapped; with options the page navigates
PgInjectDone(p, withOptions) ==
    /\ At(p, "pg_inject")
    /\ LET pg == proc[p].page IN
       IF withOptions
       THEN Commit(handles, browser, browserWSEndpoint,
                   Incremented(activePageCount), pages,
                   [proc EXCEPT ![p] = [@ EXCEPT !.pc = "pg_goto"]])
       ELSE Commit(handles, browser, browserWSEndpoint,
                   Incremented(activePageCount),
                   [pages EXCEPT ![pg].held = TRUE],
                   [proc EXCEPT ![p] = Ret([@ EXCEPT !.page = 0], @.stack, NoErr)])

\* goto (and setContent, the fonts) done: the page is handed to the caller,
\* or returned to render() when that is what called page()
PgGotoOk(p) ==
    /\ At(p, "pg_goto")
    /\ LET pg == proc[p].page
           toCaller == proc[p].stack = <<>> IN
       /\ pages[pg].open
       /\ Commit(handles, browser, browserWSEndpoint, activePageCount,
                 [pages EXCEPT ![pg].blank = FALSE, ![pg].held = toCaller],
                 [proc EXCEPT ![p] =
                     Ret([@ EXCEPT !.page = IF toCaller THEN 0 ELSE pg],
                         @.stack, NoErr)])

\* goto threw: the catch closes the page, then rethrows
PgGotoFail(p) ==
    /\ At(p, "pg_goto")
    /\ Local(p, PageClose([proc[p] EXCEPT !.e = Err("goto failed", "")],
                          <<"pg_catch">> \o proc[p].stack, proc[p].page))

\* the catch of page() after its page.close(): throw err (or close's error)
PgCatchClosed(p) ==
    /\ Resumes(p, "pg_catch")
    /\ LET r == proc[p] IN
       Local(p, Ret([r EXCEPT !.page = 0, !.e = NoErr], Tail(r.stack),
                    IF r.err # NoErr THEN r.err ELSE r.e))

\* the counter after a page is closed
Decremented(n) == IF config.immediateClose THEN n - 1 ELSE n

\* the engine closed the page: in on-demand mode it is uncounted and the
\* teardown check runs
ClCloseOk(p) ==
    /\ At(p, "cl_close")
    /\ LET pg == proc[p].page
           r == [proc[p] EXCEPT !.page = 0] IN
       /\ pages[pg].open
       /\ Commit(handles, browser, browserWSEndpoint,
                 Decremented(activePageCount),
                 [pages EXCEPT ![pg].open = FALSE],
                 [proc EXCEPT ![p] =
                     CheckAndCloseBrowser(r, r.stack,
                                          Decremented(activePageCount))])

\* the engine's close rejected: close() throws, the counter is untouched
ClCloseFail(p) ==
    /\ At(p, "cl_close")
    /\ Local(p, Ret([proc[p] EXCEPT !.page = 0], proc[p].stack,
                    Err("close failed", "")))

\* browser.pages() resolved: stop the browser when only blank pages are left
CcbPagesOk(p) ==
    /\ At(p, "ccb_pages")
    /\ handles[proc[p].h] = "connected"
    /\ LET r == [proc[p] EXCEPT !.h = 0] IN
       Local(p, IF NonBlankPages(proc[p].h) = {}
                THEN StopBrowser(r, r.stack)
                ELSE Ret(r, r.stack, NoErr))

\* browser.pages() rejected: logged, nothing is stopped
CcbPagesFail(p) ==
    /\ At(p, "ccb_pages")
    /\ Local(p, Ret([proc[p] EXCEPT !.h = 0], proc[p].stack, NoErr))

-----------------------------------------------------------------------------
(* The facade operations, as their callers start them                      *)

Idle(p) == proc[p].pc = "idle"


\* start(): the browser is started unless on-demand mode is on
Start(p) ==
    /\ Idle(p)
    /\ svc = "new"
    /\ started < MaxCalls
    /\ started' = started + 1
    /\ svc' = "starting"
    /\ proc' = [proc EXCEPT ![p] =
                   IF ~config.immediateClose
                   THEN StartBrowser(IdleProc, <<"start_1">>)
                   ELSE Ret(IdleProc, <<"start_1">>, NoErr)]
    /\ UNCHANGED <<config, browser, browserWSEndpoint, activePageCount,
                   handles, pages, input, parts, output, fontVars>>

\* start() is over: the service is available when it did not throw
StartDone(p) ==
    /\ Resumes(p, "start_1")
    /\ svc' = IF proc[p].err = NoErr THEN "running" ELSE "failed"
    /\ proc' = [proc EXCEPT ![p] = IdleProc]
    /\ UNCHANGED <<config, started, browser, browserWSEndpoint,
                   activePageCount, handles, pages, input, parts, output, fontVars>>

\* stop(): no operation is started after it
Stop(p) ==
    /\ Idle(p)
    /\ svc \in {"running", "failed"}
    /\ started < MaxCalls
    /\ started' = started + 1
    /\ svc' = "stopping"
    /\ proc' = [proc EXCEPT ![p] = StopBrowser(IdleProc, <<"stop_1">>)]
    /\ UNCHANGED <<config, browser, browserWSEndpoint, activePageCount,
                   handles, pages, input, parts, output, fontVars>>

StopDone(p) ==
    /\ Resumes(p, "stop_1")
    /\ svc' = "stopped"
    /\ proc' = [proc EXCEPT ![p] = IdleProc]
    /\ UNCHANGED <<config, started, browser, browserWSEndpoint,
                   activePageCount, handles, pages, input, parts, output, fontVars>>

\* the puppeteer.restart command: stopBrowser, then startBrowser
Restart(p) ==
    /\ Idle(p)
    /\ svc = "running"
    /\ RestartRegistered
    /\ started < MaxCalls
    /\ started' = started + 1
    /\ proc' = [proc EXCEPT ![p] = StopBrowser(IdleProc, <<"restart_1">>)]
    /\ UNCHANGED <<config, svc, browser, browserWSEndpoint, activePageCount,
                   handles, pages, input, parts, output, fontVars>>

RestartStopped(p) ==
    /\ Resumes(p, "restart_1")
    /\ Local(p, StartBrowser(proc[p], <<"restart_2">>))

\* the command's reply: the caught error becomes a status string
RestartDone(p) ==
    /\ Resumes(p, "restart_2")
    /\ Local(p, IdleProc)

\* svg(): a bare ensureConnected()
Svg(p) ==
    /\ Idle(p)
    /\ svc = "running"
    /\ started < MaxCalls
    /\ started' = started + 1
    /\ proc' = [proc EXCEPT ![p] = EnsureConnected(IdleProc, <<"svg_1">>)]
    /\ UNCHANGED <<config, svc, browser, browserWSEndpoint, activePageCount,
                   handles, pages, input, parts, output, fontVars>>

SvgDone(p) ==
    /\ Resumes(p, "svg_1")
    /\ Local(p, IdleProc)

\* page(options?)
Page(p) ==
    /\ Idle(p)
    /\ svc = "running"
    /\ started < MaxCalls
    /\ started' = started + 1
    /\ proc' = [proc EXCEPT ![p] = EnsureConnected(IdleProc, <<"pg_1">>)]
    /\ UNCHANGED <<config, svc, browser, browserWSEndpoint, activePageCount,
                   handles, pages, input, parts, output, fontVars>>

\* a caller closes a page that page() returned to it
Close(p) ==
    /\ Idle(p)
    /\ started < MaxCalls
    /\ started' = started + 1
    /\ \E pg \in 1..MaxPages :
        /\ pages[pg].held
        /\ pages' = [pages EXCEPT ![pg].held = FALSE]
        /\ proc' = [proc EXCEPT ![p] = PageClose(IdleProc, <<>>, pg)]
    /\ UNCHANGED <<config, svc, browser, browserWSEndpoint, activePageCount,
                   handles, input, parts, output, fontVars>>

\* render(content, callback?): a bare ensureConnected() first
Render(p) ==
    /\ Idle(p)
    /\ svc = "running"
    /\ started < MaxCalls
    /\ started' = started + 1
    /\ proc' = [proc EXCEPT ![p] = EnsureConnected(IdleProc, <<"rd_1">>)]
    /\ UNCHANGED <<config, svc, browser, browserWSEndpoint, activePageCount,
                   handles, pages, input, parts, output, fontVars>>

\* resumption of render() after ensureConnected: page({ url, content })
RdEnsured(p) ==
    /\ Resumes(p, "rd_1")
    /\ LET r == proc[p] IN
       Local(p, IF r.err # NoErr
                THEN Ret(r, Tail(r.stack), r.err)
                ELSE EnsureConnected(r, <<"pg_1", "rd_2">>))

\* resumption of render() after page(): the callback is awaited (a failure
\* to apply the font families is logged only)
RdPaged(p) ==
    /\ Resumes(p, "rd_2")
    /\ LET r == proc[p] IN
       Local(p, IF r.err # NoErr
                THEN Ret(r, Tail(r.stack), r.err)
                ELSE [r EXCEPT !.pc = "rd_callback", !.stack = Tail(r.stack)])

\* the callback returned the output: page.close() is called and not awaited,
\* render() returns; the caller's frame lives on as the close in progress
RdCallbackOk(p) ==
    /\ At(p, "rd_callback")
    /\ pages[proc[p].page].open
    /\ Local(p, PageClose(proc[p], <<>>, proc[p].page))

\* the callback or the screenshot threw: render() throws
RdCallbackFail(p) ==
    /\ At(p, "rd_callback")
    /\ Local(p, Ret(proc[p], <<>>, Err("callback failed", "")))

-----------------------------------------------------------------------------
(* The engine                                                              *)

\* the connection of a handle ends (the browser died, the network failed)
Disconnected(h) ==
    /\ handles[h] = "connected"
    /\ Commit([handles EXCEPT ![h] = "dead"], browser, browserWSEndpoint,
              activePageCount, PagesWithout(h), proc)

-----------------------------------------------------------------------------
(* FontServer (src/font-server.ts): paths and the file system              *)

Path_a    == <<"/", "a", ".", "t", "t", "f">>     \* a font file
Path_B    == <<"/", "b", ".", "T", "T", "F">>     \* a font file, upper-case ext
Path_txt  == <<"/", "c", ".", "t", "x", "t">>     \* a file that is no font
Path_dir  == <<"/", "d", ".", "t", "t", "f">>     \* a directory
Path_none == <<"/", "e", ".", "t", "t", "f">>     \* nothing there

FontPaths == {Path_a, Path_B, Path_txt, Path_dir, Path_none}

\* what stat() finds at first; Path_a may be removed later
RegularFiles == {Path_a, Path_B, Path_txt}
Directories == {Path_dir}

\* position of the last c in s, 0 when there is none
LastIndexOf(s, c) ==
    IF \E i \in 1..Len(s) : s[i] = c
    THEN CHOOSE i \in 1..Len(s) : s[i] = c /\ \A j \in (i + 1)..Len(s) : s[j] # c
    ELSE 0

\* path.basename
Basename(s) == SubSeq(s, LastIndexOf(s, "/") + 1, Len(s))

\* path.extname: from the last "." of the base name, '' when there is none
\* or when the name starts with it
Extname(s) ==
    LET b == Basename(s)
        i == LastIndexOf(b, ".") IN
    IF i <= 1 THEN <<>> ELSE SubSeq(b, i, Len(b))

supportedExts ==
    { <<".", "t", "t", "f">>, <<".", "o", "t", "f">>, <<".", "w", "o", "f", "f">>,
      <<".", "w", "o", "f", "f", "2">>, <<".", "t", "t", "c">> }

\* the path names nothing, a directory, or a file that is no font
NoFontFile(path) ==
    path \notin files \/ path \in Directories \/ path = Path_txt

\* the checks of start() before createServer: '' or the error thrown
Validate(path) ==
    IF path \notin files \cup Directories THEN "ENOENT"
    ELSE IF path \notin files THEN "not a file"
    ELSE IF ToLowerCase(Extname(path)) \notin supportedExts
    THEN "unsupported format"
    ELSE ""

-----------------------------------------------------------------------------
(* FontServer: the object and its callers                                  *)

\* results of an operation
NoResult == [kind |-> "none", url |-> <<>>, msg |-> ""]
Returned == [kind |-> "void", url |-> <<>>, msg |-> ""]
ReturnedNull == [kind |-> "null", url |-> <<>>, msg |-> ""]
Thrown(m) == [kind |-> "error", url |-> <<>>, msg |-> m]

\* `http://localhost:${this.port}/font`
UrlOf(n) == [kind |-> "url", url |-> <<"http://localhost:", n, "/font">>, msg |-> ""]

\* getFontUrl()
GetFontUrl == IF port = 0 THEN Thrown("server not started") ELSE UrlOf(port)

\* isRunning()
IsRunning == server # 0 /\ port # 0

IdleFProc ==
    [ pc |-> "idle",
      op |-> "",            \* the operation in progress
      path |-> Null,        \* start: the fontPath argument
      bad |-> FALSE,        \* start: the argument named no font file
      closing |-> FALSE,    \* start: its stop() awaits a close callback
      srv |-> 0,            \* start: the server listen() was called on
      lport |-> 0,          \* start: the port listen() was called with
      created |-> 0,        \* start: servers this call created
      result |-> NoResult ]

\* the operation of r is over
FRet(r, res) ==
    [r EXCEPT !.pc = "ret", !.closing = FALSE, !.srv = 0, !.lport = 0,
              !.result = res]

FIdle(p) == fproc[p].pc = "idle"

NoServer == [state |-> "free", port |-> 0, path |-> Null]

Listening(s) == servers[s].state = "listening"

\* the listeners that are open
OpenListeners == {s \in 1..MaxServers : Listening(s)}

HasFreeServer == \E s \in 1..MaxServers : servers[s].state = "free"

NewServer == CHOOSE s \in 1..MaxServers : servers[s].state = "free"

\* server.close(): the server stops listening at once
Closed(svs, s) == [svs EXCEPT ![s].state = "idle", ![s].port = 0]

\* servers that nothing refers to and that do not listen are collected
ReachableServers(svs, sv, fp) ==
    [s \in 1..MaxServers |->
        IF /\ svs[s].state = "idle"
           /\ s # sv
           /\ \A q \in Procs : fp[q].srv # s
        THEN NoServer
        ELSE svs[s]]

\* the next state of the FontServer
FCommit(svs, sv, pt, fpth, fp) ==
    /\ servers' = ReachableServers(svs, sv, fp)
    /\ server' = sv
    /\ port' = pt
    /\ fontPath' = fpth
    /\ fproc' = fp
    /\ UNCHANGED <<files, fcalls, request, response>>
    /\ UNCHANGED sessionVars
    /\ UNCHANGED classifierVars

\* a caller starts an operation
FCall(svs, sv, pt, fpth, fp) ==
    /\ fcalls < MaxFontCalls
    /\ fcalls' = fcalls + 1
    /\ servers' = ReachableServers(svs, sv, fp)
    /\ server' = sv
    /\ port' = pt
    /\ fontPath' = fpth
    /\ fproc' = fp
    /\ UNCHANGED <<files, request, response>>
    /\ UNCHANGED sessionVars
    /\ UNCHANGED classifierVars

\* this.port = null of the close callback
ClearedPort(n) == 0

\* as SamePath, never taken
SamePath_never(path) == FALSE

\* start(): the server is up and serves this path already
SamePath(path) == server # 0 /\ fontPath = path /\ port # 0

\* start(fontPath): the URL at once for the same path, else stop() first;
\* a stop() that finds no server is over before anything else runs, and
\* start goes on to this.fontPath = fontPath and stat
FStart(p, path) ==
    /\ FIdle(p)
    /\ LET r == [IdleFProc EXCEPT !.op = "start", !.path = path,
                                   !.bad = NoFontFile(path)] IN
       IF SamePath(path)
       THEN FCall(servers, server, port, fontPath,
                  [fproc EXCEPT ![p] = FRet(r, GetFontUrl)])
       ELSE IF server # 0
       THEN FCall(Closed(servers, server), server, port, fontPath,
                  [fproc EXCEPT ![p] = [r EXCEPT !.pc = "st_stop",
                                                 !.closing = TRUE]])
       ELSE FCall(servers, server, port, path,
                  [fproc EXCEPT ![p] = [r EXCEPT !.pc = "st_stat"]])

\* the close callback of the stop() inside start() cleared the fields:
\* this.fontPath = fontPath; stat
FStartStopped(p) ==
    /\ fproc[p].pc = "st_stop"
    /\ FCommit(servers, 0, ClearedPort(port), fproc[p].path,
               [fproc EXCEPT ![p] = [@ EXCEPT !.pc = "st_stat",
                                              !.closing = FALSE]])

\* stat resolved or rejected: the checks, createServer, getAvailablePort
FStatDone(p) ==
    /\ fproc[p].pc = "st_stat"
    /\ IF Validate(fproc[p].path) # ""
       THEN FCommit(servers, server, port, fontPath,
                    [fproc EXCEPT ![p] = FRet(@, Thrown(Validate(@.path)))])
       ELSE /\ HasFreeServer
            /\ FCommit([servers EXCEPT ![NewServer] =
                           [state |-> "idle", port |-> 0, path |-> fproc[p].path]],
                       NewServer, port, fontPath,
                       [fproc EXCEPT ![p] = [@ EXCEPT !.pc = "st_port",
                                                      !.created = @ + 1]])

\* the ports no listener of ours holds
FreePorts == {n \in 1..MaxPorts : \A s \in 1..MaxServers : servers[s].port # n}

\* getAvailablePort resolved: this.port = n; this.server!.listen(n)
FPortOk(p, n) ==
    /\ fproc[p].pc = "st_port"
    /\ n \in FreePorts
    /\ FCommit(servers, server, n, fontPath,
               [fproc EXCEPT ![p] =
                   IF server = 0
                   THEN FRet(@, Thrown("TypeError"))
                   ELSE IF Listening(server)
                   THEN FRet(@, Thrown("ERR_SERVER_ALREADY_LISTEN"))
                   ELSE [@ EXCEPT !.pc = "st_listen", !.srv = server,
                                  !.lport = n]])

\* getAvailablePort rejected
FPortFail(p) ==
    /\ fproc[p].pc = "st_port"
    /\ FCommit(servers, server, port, fontPath,
               [fproc EXCEPT ![p] = FRet(@, Thrown("no port"))])

\* the listening callback: resolve(this.getFontUrl()); when getFontUrl
\* throws there the promise of start() is never settled
FListenOk(p) ==
    /\ fproc[p].pc = "st_listen"
    /\ fproc[p].lport \in FreePorts
    /\ ~Listening(fproc[p].srv)
    /\ FCommit([servers EXCEPT ![fproc[p].srv].state = "listening",
                               ![fproc[p].srv].port = fproc[p].lport],
               server, port, fontPath,
               [fproc EXCEPT ![p] =
                   IF port = 0
                   THEN [@ EXCEPT !.pc = "st_hung", !.srv = 0, !.lport = 0]
                   ELSE FRet(@, GetFontUrl)])

\* the error event of listen (the port was taken meanwhile): reject(error)
FListenFail(p) ==
    /\ fproc[p].pc = "st_listen"
    /\ FCommit(servers, server, port, fontPath,
               [fproc EXCEPT ![p] = FRet(@, Thrown("EADDRINUSE"))])

\* stop(): close the server when there is one
FStop(p) ==
    /\ FIdle(p)
    /\ LET r == [IdleFProc EXCEPT !.op = "stop"] IN
       IF server # 0
       THEN FCall(Closed(servers, server), server, port, fontPath,
                  [fproc EXCEPT ![p] = [r EXCEPT !.pc = "sp_close"]])
       ELSE FCall(servers, server, port, fontPath,
                  [fproc EXCEPT ![p] = FRet(r, Returned)])

\* the close callback of stop(): the fields are cleared
FStopClosed(p) ==
    /\ fproc[p].pc = "sp_close"
    /\ FCommit(servers, 0, ClearedPort(port), Null,
               [fproc EXCEPT ![p] = FRet(@, Returned)])

\* FontServer.getFontUrl(), called from outside
FGetFontUrl(p) ==
    /\ FIdle(p)
    /\ FCall(servers, server, port, fontPath,
             [fproc EXCEPT ![p] =
                 FRet([IdleFProc EXCEPT !.op = "getFontUrl"], GetFontUrl)])

\* Puppeteer.getFontUrl(), with the font enabled: null unless isRunning()
PGetFontUrl(p) ==
    /\ FIdle(p)
    /\ FCall(servers, server, port, fontPath,
             [fproc EXCEPT ![p] =
                 FRet([IdleFProc EXCEPT !.op = "Puppeteer.getFontUrl"],
                      IF IsRunning THEN GetFontUrl ELSE ReturnedNull)])

\* the file Path_a is removed
FUnlink ==
    /\ Path_a \in files
    /\ files' = files \ {Path_a}
    /\ UNCHANGED <<server, port, fontPath, servers, fcalls, fproc, request,
                   response>>
    /\ UNCHANGED sessionVars
    /\ UNCHANGED classifierVars

\* the caller has its result
FReturn(p) ==
    /\ fproc[p].pc = "ret"
    /\ FCommit(servers, server, port, fontPath,
               [fproc EXCEPT ![p] = IdleFProc])

FontInit ==
    /\ server = 0
    /\ port = 0
    /\ fontPath = Null
    /\ servers = [s \in 1..MaxServers |-> NoServer]
    /\ files = RegularFiles
    /\ fcalls = 0
    /\ fproc = [p \in Procs |-> IdleFProc]

-----------------------------------------------------------------------------
(* FontServer: the request handler of createServer                         *)

Target_font  == <<"/", "f", "o", "n", "t">>
Target_fontq == <<"/", "f", "o", "n", "t", "?", "v">>
Target_fonts == <<"/", "f", "o", "n", "t", "/">>
Target_a     == <<"/", "a", ".", "t", "t", "f">>
Target_B     == <<"/", "b", ".", "T", "T", "F">>
Target_b     == <<"/", "b", ".", "t", "t", "f">>
Target_x     == <<"/", "x">>
Target_ss    == <<"/", "/">>

\* new URL(req.url, `http://localhost:${this.port}`) returns: the base has a
\* port, and a target that starts an authority with // names a host
RequestUrlParses(req) ==
    /\ req.port # 0
    /\ (Len(req.target) >= 2 /\ req.target[1] = "/" /\ req.target[2] = "/")
          => HostOk(req.target)

\* url.pathname of a target in origin form: the query is cut off
Pathname(target) ==
    IF \E i \in 1..Len(target) : target[i] = "?"
    THEN SubSeq(target, 1,
                (CHOOSE i \in 1..Len(target) :
                     target[i] = "?" /\ \A j \in 1..(i - 1) : target[j] # "?") - 1)
    ELSE target

NoResponse == [status |-> 0, body |-> "", headers |-> {}]

\* as CorsHeaders, without the header that admits every origin
CorsHeaders_noOrigin ==
    { <<"Access-Control-Allow-Methods", "GET, OPTIONS">>,
      <<"Access-Control-Allow-Headers", "Content-Type">> }

\* the headers set before the method is looked at; a header set with
\* setHeader stays on the response whatever writeHead is called later
CorsHeaders ==
    { <<"Access-Control-Allow-Origin", "*">>,
      <<"Access-Control-Allow-Methods", "GET, OPTIONS">>,
      <<"Access-Control-Allow-Headers", "Content-Type">> }

\* getMimeType(ext)
GetMimeType(ext) ==
    CASE ext = <<".", "t", "t", "f">> -> "font/ttf"
      [] ext = <<".", "o", "t", "f">> -> "font/otf"
      [] ext = <<".", "w", "o", "f", "f">> -> "font/woff"
      [] ext = <<".", "w", "o", "f", "f", "2">> -> "font/woff2"
      [] ext = <<".", "t", "t", "c">> -> "font/ttf"
      [] OTHER -> "application/octet-stream"

\* the headers of the response that carries the font
FontHeaders(path) ==
    { <<"Content-Type", GetMimeType(ToLowerCase(Extname(path)))>>,
      <<"Content-Length", "fontData.length">>,
      <<"Cache-Control", "public, max-age=31536000">> }

\* writeHead(status, { 'Content-Type': 'text/plain' }) and the text
TextResponse(status, text) ==
    [status |-> status, body |-> text,
     headers |-> CorsHeaders \cup {<<"Content-Type", "text/plain">>}]

\* as Respond, with the route of the base name left out
Respond_fontOnly(req) ==
    IF req.method = "OPTIONS"
    THEN [status |-> 200, body |-> "", headers |-> CorsHeaders]
    ELSE IF req.method # "GET" THEN TextResponse(405, "Method Not Allowed")
    ELSE IF ~RequestUrlParses(req)
    THEN TextResponse(500, "Internal Server Error")
    ELSE IF Pathname(req.target) = Target_font
    THEN IF req.readable
         THEN [status |-> 200, body |-> "fontData",
               headers |-> CorsHeaders \cup FontHeaders(req.path)]
         ELSE TextResponse(500, "Internal Server Error")
    ELSE TextResponse(404, "Font Not Found")

\* the handler: the response to a request, for the fontPath of its closure
Respond(req) ==
    IF req.method = "OPTIONS"
    THEN [status |-> 200, body |-> "", headers |-> CorsHeaders]
    ELSE IF req.method # "GET" THEN TextResponse(405, "Method Not Allowed")
    ELSE IF ~RequestUrlParses(req)
    THEN TextResponse(500, "Internal Server Error")
    ELSE IF \/ Pathname(req.target) = Target_font
            \/ Pathname(req.target) = <<"/">> \o Basename(req.path)
    THEN IF req.readable
         THEN [status |-> 200, body |-> "fontData",
               headers |-> CorsHeaders \cup FontHeaders(req.path)]
         ELSE TextResponse(500, "Internal Server Error")
    ELSE TextResponse(404, "Font Not Found")

HandlerIdle ==
    /\ request = [method |-> "", target |-> Null, path |-> Null,
                  readable |-> TRUE, port |-> 0]
    /\ response = NoResponse

-----------------------------------------------------------------------------
(* The session controller                                                  *)

SessionInit ==
    /\ svc = "new"
    /\ started = 0
    /\ browser = 0
    /\ browserWSEndpoint = Null
    /\ activePageCount = 0
    /\ handles = [h \in 1..MaxHandles |-> "free"]
    /\ pages = [i \in 1..MaxPages |-> NoPage]
    /\ proc = [p \in Procs |-> IdleProc]

ClassifierIdle ==
    /\ input = Null
    /\ parts = <<Null, Null, Null>>
    /\ output = ""

(* Normal mode (immediateClose off).  There page() and page.close() touch  *)
(* the controller's state only through the ensureConnected() that page()   *)
(* starts with, which svg() stands for; the counter and the teardown check *)
(* are inert.  No font is configured (enableFont off): startFontServer    *)
(* does nothing and stopFontServer finds no server to close; the           *)
(* FontServer is checked on its own below.                                 *)

Init ==
    /\ config \in Configs
    /\ ~config.immediateClose
    /\ SessionInit
    /\ ClassifierIdle
    /\ FontInit
    /\ HandlerIdle

Step(p) ==
    \/ Start(p) \/ StartDone(p)
    \/ Stop(p) \/ StopDone(p)
    \/ Restart(p) \/ RestartStopped(p) \/ RestartDone(p)
    \/ Svg(p) \/ SvgDone(p)
    \/ SBConnectOk(p) \/ SBConnectFail(p)
    \/ SBLaunchOk(p) \/ SBLaunchFail(p)
    \/ StopCloseOk(p) \/ StopCloseThrow(p)
    \/ ECSleepDone(p) \/ ECConnectOk(p) \/ ECConnectFail(p)
    \/ ECConnectFail404(p) \/ ECFallbackOk(p) \/ ECFallbackFail(p)
    \/ ECBackoffDone(p)

Next ==
    \/ \E p \in Procs : Step(p)
    \/ \E h \in 1..MaxHandles : Disconnected(h)

Spec == Init /\ [][Next]_vars

(* Normal mode with callers that only start the service and call svg(),    *)
(* where every connect call and every sleep of the reconnection loop       *)
(* completes: a caller suspended in the loop is resumed, with the result   *)
(* or with the error of the call.                                          *)

LoopResumed(p) ==
    \/ ECSleepDone(p) \/ ECConnectOk(p) \/ ECConnectFail(p)
    \/ ECConnectFail404(p) \/ ECFallbackOk(p) \/ ECFallbackFail(p)
    \/ ECBackoffDone(p)

NextReconnect ==
    \/ \E p \in Procs :
          \/ Start(p) \/ StartDone(p)
          \/ Svg(p) \/ SvgDone(p)
          \/ SBConnectOk(p) \/ SBConnectFail(p)
          \/ SBLaunchOk(p) \/ SBLaunchFail(p)
          \/ LoopResumed(p)
    \/ \E h \in 1..MaxHandles : Disconnected(h)

SpecReconnectFair ==
    /\ Init
    /\ [][NextReconnect]_vars
    /\ \A p \in Procs : WF_vars(LoopResumed(p))

(* On-demand mode (immediateClose on, a local browser): the restart        *)
(* command is not registered and ensureConnected never reaches its         *)
(* reconnection loop.                                                      *)

InitOnDemand ==
    /\ config \in Configs
    /\ config.immediateClose
    /\ SessionInit
    /\ ClassifierIdle
    /\ FontInit
    /\ HandlerIdle

StepOnDemand(p) ==
    \/ Start(p) \/ StartDone(p)
    \/ Stop(p) \/ StopDone(p)
    \/ Svg(p) \/ SvgDone(p)
    \/ Page(p) \/ PgEnsured(p)
    \/ PgNewPageOk(p) \/ PgNewPageFail(p)
    \/ PgInjectDone(p, TRUE) \/ PgInjectDone(p, FALSE)
    \/ PgGotoOk(p) \/ PgGotoFail(p) \/ PgCatchClosed(p)
    \/ Close(p)
    \/ ClCloseOk(p) \/ ClCloseFail(p)
    \/ CcbPagesOk(p) \/ CcbPagesFail(p)
    \/ SBLaunchOk(p) \/ SBLaunchFail(p)
    \/ StopCloseOk(p) \/ StopCloseThrow(p)

NextOnDemand ==
    \/ \E p \in Procs : StepOnDemand(p)
    \/ \E h \in 1..MaxHandles : Disconnected(h)

SpecOnDemand == InitOnDemand /\ [][NextOnDemand]_vars

(* On-demand mode where every awaited call completes: an asynchronous      *)
(* function that is suspended at an await is resumed, with the result or   *)
(* with the error of the call.  Whether a caller starts another operation, *)
(* and whether the browser dies, is left open.                             *)

Resumed(p) ==
    \/ StartDone(p) \/ StopDone(p) \/ SvgDone(p)
    \/ PgEnsured(p)
    \/ PgNewPageOk(p) \/ PgNewPageFail(p)
    \/ PgInjectDone(p, TRUE) \/ PgInjectDone(p, FALSE)
    \/ PgGotoOk(p) \/ PgGotoFail(p) \/ PgCatchClosed(p)
    \/ ClCloseOk(p) \/ ClCloseFail(p)
    \/ CcbPagesOk(p) \/ CcbPagesFail(p)
    \/ SBLaunchOk(p) \/ SBLaunchFail(p)
    \/ StopCloseOk(p) \/ StopCloseThrow(p)

SpecOnDemandFair ==
    /\ InitOnDemand
    /\ [][NextOnDemand]_vars
    /\ \A p \in Procs : WF_vars(Resumed(p))

(* A local browser with pages in either mode: on-demand, or normal with    *)
(* reconnecting off.                                                       *)

InitPages ==
    /\ config \in {c \in Configs :
                      ~c.remote /\ (c.immediateClose \/ ~c.enableReconnect)}
    /\ SessionInit
    /\ ClassifierIdle
    /\ FontInit
    /\ HandlerIdle

SpecPages == InitPages /\ [][NextOnDemand]_vars

(* render() on a local browser in either mode, with concurrent callers     *)

NextRender ==
    \/ \E p \in Procs :
          \/ Start(p) \/ StartDone(p)
          \/ Render(p) \/ RdEnsured(p) \/ RdPaged(p)
          \/ RdCallbackOk(p) \/ RdCallbackFail(p)
          \/ PgEnsured(p)
          \/ PgNewPageOk(p) \/ PgNewPageFail(p)
          \/ PgInjectDone(p, TRUE)
          \/ PgGotoOk(p) \/ PgGotoFail(p) \/ PgCatchClosed(p)
          \/ ClCloseOk(p) \/ ClCloseFail(p)
          \/ CcbPagesOk(p) \/ CcbPagesFail(p)
          \/ SBLaunchOk(p) \/ SBLaunchFail(p)
          \/ StopCloseOk(p) \/ StopCloseThrow(p)
    \/ \E h \in 1..MaxHandles : Disconnected(h)

SpecRender == InitPages /\ [][NextRender]_vars

-----------------------------------------------------------------------------
(* The endpoint classification on its own: every string scheme ++ sep ++   *)
(* rest is classified as startBrowser classifies config.endpoint           *)

Schemes == {Null, Str_ws, Str_wss, Str_WS, Str_http, Str_https, Str_ftp,
            Str_x, Str_1x}
Separators == {Null, Colon, <<":", "/">>, Sep_slashes}
Rests == {Null, <<"h">>, <<"h", "/", "p">>, <<" ">>, <<"/", "h">>}

InitClassifier ==
    /\ config \in {c \in Configs : ~c.remote /\ ~c.immediateClose
                                    /\ c.executable # Null /\ ~c.enableReconnect}
    /\ SessionInit
    /\ parts \in {<<s, sep, rest>> : s \in Schemes, sep \in Separators, rest \in Rests}
    /\ input = parts[1] \o parts[2] \o parts[3]
    /\ output = ""
    /\ FontInit
    /\ HandlerIdle

\* the classification startBrowser makes of the string: the target it
\* connects to, or the error it throws before any connect
Classified(endpoint) ==
    IF endpoint = Null
    THEN "Invalid: endpoint required"
    ELSE LET c == ClassifyEndpoint(endpoint) IN
         IF c.kind = "Invalid" THEN "Invalid: " \o c.reason ELSE c.kind

Classify ==
    /\ output = ""
    /\ output' = Classified(input)
    /\ UNCHANGED <<input, parts>>
    /\ UNCHANGED sessionVars
    /\ UNCHANGED fontVars

NextClassifier == Classify

SpecClassifier == InitClassifier /\ [][NextClassifier]_vars

-----------------------------------------------------------------------------
(* The three places that classify config.endpoint, side by side: the       *)
(* object is remote, holds no handle and no saved endpoint, and its        *)
(* configured endpoint is any string scheme ++ sep ++ rest                 *)

\* what puppeteer.connect is given to connect to
ConnectTarget(options) ==
    IF options.browserWSEndpoint # Null THEN "DirectSocket"
    ELSE IF options.browserURL # Null THEN "Discovery"
    ELSE "no target"

\* what startBrowser, the first attempt of ensureConnected and the 404
\* fallback do with the configured endpoint: the target of the connect call
\* they issue, or "Invalid" when they issue none
Reclassified ==
    LET sb == StartBrowser(IdleProc, <<"start_1">>)
        ec == EnsureConnected(IdleProc, <<"svg_1">>) IN
    [ start |-> IF sb.pc = "sb_connect"
                THEN ConnectTarget(sb.connectOptions) ELSE "Invalid",
      reconnect |-> IF ec.pc = "ec_connect"
                    THEN ConnectTarget(ec.connectOptions) ELSE "Invalid",
      fallback |-> IF OriginalOptionsThrows
                   THEN "Invalid" ELSE ConnectTarget(OriginalOptions) ]

InitReclassifier ==
    /\ parts \in {<<s, sep, rest>> : s \in Schemes, sep \in Separators, rest \in Rests}
    /\ input = parts[1] \o parts[2] \o parts[3]
    /\ config = [ remote |-> TRUE, endpoint |-> input, executable |-> Null,
                  immediateClose |-> FALSE, enableReconnect |-> TRUE,
                  reconnectInterval |-> 0, maxReconnectRetries |-> 1 ]
    /\ SessionInit
    /\ output = [start |-> "", reconnect |-> "", fallback |-> ""]
    /\ FontInit
    /\ HandlerIdle

Reclassify ==
    /\ output.start = ""
    /\ output' = Reclassified
    /\ UNCHANGED <<input, parts>>
    /\ UNCHANGED sessionVars
    /\ UNCHANGED fontVars

SpecReclassifier == InitReclassifier /\ [][Reclassify]_vars

-----------------------------------------------------------------------------
(* The FontServer on its own, with concurrent callers                      *)

InitFont ==
    /\ config \in {c \in Configs : ~c.remote /\ ~c.immediateClose
                                    /\ c.executable # Null /\ ~c.enableReconnect}
    /\ SessionInit
    /\ ClassifierIdle
    /\ FontInit
    /\ HandlerIdle

FStep(p) ==
    \/ \E path \in FontPaths : FStart(p, path)
    \/ FStartStopped(p)
    \/ FStatDone(p)
    \/ \E n \in 1..MaxPorts : FPortOk(p, n)
    \/ FPortFail(p)
    \/ FListenOk(p) \/ FListenFail(p)
    \/ FStop(p) \/ FStopClosed(p)
    \/ FGetFontUrl(p) \/ PGetFontUrl(p)
    \/ FReturn(p)

NextFont ==
    \/ \E p \in Procs : FStep(p)
    \/ FUnlink

SpecFont == InitFont /\ [][NextFont]_vars

-----------------------------------------------------------------------------
(* The request handler on its own: a request to a listening server whose   *)
(* closure holds a font path; the file may have become unreadable and the  *)
(* port field may have been cleared since the server was started           *)

Methods == {"GET", "OPTIONS", "HEAD", "POST", "DELETE"}

Targets == {Target_font, Target_fontq, Target_fonts, Target_a, Target_B,
            Target_b, Target_x, Target_ss}

InitHandler ==
    /\ config \in {c \in Configs : ~c.remote /\ ~c.immediateClose
                                    /\ c.executable # Null /\ ~c.enableReconnect}
    /\ SessionInit
    /\ ClassifierIdle
    /\ FontInit
    /\ request \in [method : Methods, target : Targets, path : {Path_a, Path_B},
                     readable : BOOLEAN, port : {0, 1}]
    /\ response = NoResponse

Handle ==
    /\ response = NoResponse
    /\ response' = Respond(request)
    /\ UNCHANGED request
    /\ UNCHANGED serverVars
    /\ UNCHANGED sessionVars
    /\ UNCHANGED classifierVars

NextHandler == Handle

SpecHandler == InitHandler /\ [][NextHandler]_vars


-----------------------------------------------------------------------------
(* Properties of the session lifecycle                                     *)

\* the caller p is inside the retry loop of ensureConnected
InReconnect(p) ==
    proc[p].pc \in {"ec_sleep", "ec_connect", "ec_fallback", "ec_backoff"}

\* the handles the engine holds open
LiveHandles == {h \in 1..MaxHandles : handles[h] = "connected"}

\* C1: ensureConnected is non-reentrant: of the callers that find the session
\* disconnected at the same time, at most one is running the reconnection
\* sequence.
C1_SingleReconnection ==
    Cardinality({p \in Procs : InReconnect(p)}) <= 1

\* C2: in every reachable state at most one engine handle is live.
C2_AtMostOneLiveHandle ==
    Cardinality(LiveHandles) <= 1

\* C3: when stopBrowser returns, whether disconnect() / close() resolved or
\* threw, the handle is null, the saved endpoint is cleared and the page
\* counter is 0.
C3_StopClearsSession ==
    [][\A p \in Procs :
          (proc[p].pc = "stop_close" /\ proc'[p].pc # "stop_close")
              => (browser' = 0 /\ browserWSEndpoint' = Null
                  /\ activePageCount' = 0)]_vars

\* no operation is running
Quiescent == \A p \in Procs : Idle(p)

\* the pages handed to callers and not closed by them yet
HeldPages == {i \in 1..MaxPages : pages[i].held}

\* C4: in on-demand mode the page counter is never negative and, once every
\* page handed out has been closed, it is back to 0 (pages got minus pages
\* closed).
C4_CounterTracksPages ==
    /\ activePageCount >= 0
    /\ (Quiescent /\ HeldPages = {}) => activePageCount = 0

\* ensureConnected of caller p has given up after using its retry budget
Exhausted(p) ==
    Resumes(p, "svg_1") /\ proc[p].err.msg = "reconnect failed"

\* C5 (as stated): a reconnection that exhausts maxRetries = N has issued
\* exactly N connect calls, whatever the errors were.
C5_ExactlyNConnects ==
    \A p \in Procs : Exhausted(p) => proc[p].calls = maxRetries

\* C5 (amended): a reconnection that exhausts maxRetries = N has issued
\* exactly N attempts of the loop plus one fallback connect per attempt that
\* failed with a 404: N calls when no attempt failed with a 404, at most 2N.
C5_NAttemptsPlusFallbacks ==
    \A p \in Procs :
        Exhausted(p) =>
            /\ proc[p].calls = maxRetries + proc[p].fallbacks
            /\ proc[p].fallbacks <= maxRetries
            /\ proc[p].retryCount = maxRetries

\* a reconnection gave up after two attempts, one of which failed with a 404
C5_Witness ==
    \E p \in Procs :
        Exhausted(p) /\ maxRetries = 2 /\ proc[p].calls = 3

\* the step of caller p is the call of ensureConnected made by svg()
CallsEnsureConnected(p) == Idle(p) /\ proc'[p].stack = <<"svg_1">>

\* C6: with reconnecting disabled and on-demand mode off, ensureConnected on
\* a disconnected session throws 'reconnection disabled' at once: no connect
\* call is issued and the session state is left as it was.
C6_DisabledFailsAtOnce ==
    [][\A p \in Procs :
          (/\ CallsEnsureConnected(p)
           /\ ~config.immediateClose
           /\ ~Connected
           /\ ~config.enableReconnect)
              => (/\ proc'[p].pc = "ret"
                  /\ proc'[p].err = Err("reconnection disabled", "")
                  /\ proc'[p].calls = 0
                  /\ UNCHANGED <<browser, browserWSEndpoint, activePageCount,
                                 handles, pages>>)]_vars

\* svg() was refused on a session that lost its browser
C6_Witness ==
    \E p \in Procs :
        /\ Resumes(p, "svg_1")
        /\ proc[p].err.msg = "reconnection disabled"
        /\ browser # 0
        /\ handles[browser] = "dead"

\* the step of caller p issues a connect call of ensureConnected
IssuesReconnect(p) ==
    /\ proc'[p].pc \in {"ec_connect", "ec_fallback"}
    /\ proc'[p].calls # proc[p].calls

\* C7: at no point of ensureConnected is a connect call issued while there
\* is neither a saved endpoint nor a configured one, the point after the
\* saved endpoint was dropped inside the loop included.
C7_NoTargetIsTerminal ==
    [][\A p \in Procs :
          IssuesReconnect(p)
              => (browserWSEndpoint' # Null \/ config.endpoint # Null)]_vars

\* the step of caller p is the return of a startBrowser that did not throw
StartBrowserReturns(p) ==
    /\ proc[p].pc \in {"sb_connect", "sb_launch"}
    /\ proc'[p].pc = "ret"
    /\ proc'[p].err = NoErr

\* C8: when startBrowser succeeds, for a local browser and for a remote one
\* reached by a socket address or by a discovery address, the session holds
\* a connected handle and a non-empty saved endpoint.
C8_StartedSessionHasEndpoint ==
    [][\A p \in Procs :
          StartBrowserReturns(p)
              => (/\ browser' # 0
                  /\ handles'[browser'] = "connected"
                  /\ browserWSEndpoint' # Null)]_vars

\* start() succeeded on a discovery address
C8_Witness ==
    \E p \in Procs :
        /\ Resumes(p, "start_1")
        /\ proc[p].err = NoErr
        /\ config.remote
        /\ config.endpoint = Str_http \o Sep_slashes \o <<"h">>
        /\ browser # 0
        /\ browserWSEndpoint = WsEndpointOfHandle

\* the configured endpoints that are empty, or that name no socket address
\* and no discovery address
InvalidSessionEndpoints == {Null, Str_ftp \o Sep_slashes \o <<"h">>, <<"h">>}

\* C9: a remote start with an empty or an Invalid endpoint fails before any
\* connect or launch call and leaves the handle and the saved endpoint as
\* they were.
C9_InvalidEndpointFailsAtOnce ==
    (config.remote /\ config.endpoint \in InvalidSessionEndpoints)
        => /\ browser = 0
           /\ browserWSEndpoint = Null
           /\ \A h \in 1..MaxHandles : handles[h] = "free"
           /\ \A p \in Procs :
                 /\ proc[p].pc \notin {"sb_connect", "sb_launch"}
                 /\ proc[p].calls = 0
                 /\ Resumes(p, "start_1")
                       => proc[p].err.msg \in {"endpoint required",
                                               "unparseable URL",
                                               "unsupported scheme"}

\* a remote start on an ftp address was refused
C9_Witness ==
    \E p \in Procs :
        /\ Resumes(p, "start_1")
        /\ config.remote
        /\ config.endpoint = Str_ftp \o Sep_slashes \o <<"h">>
        /\ proc[p].err.msg = "unsupported scheme"

\* the step of caller p is a call of ensureConnected, by page() or by svg()
EntersEnsureConnected(p) ==
    Idle(p) /\ proc'[p].stack \in {<<"pg_1">>, <<"svg_1">>}

\* C11: on a connected handle ensureConnected returns at once, in on-demand
\* mode and in normal mode: no launch or connect call, and the handle, the
\* saved endpoint and the page counter are left as they were.
C11_ConnectedIsNoOp ==
    [][\A p \in Procs :
          (EntersEnsureConnected(p) /\ Connected)
              => (/\ proc'[p].pc = "ret"
                  /\ proc'[p].err = NoErr
                  /\ proc'[p].calls = 0
                  /\ UNCHANGED <<browser, browserWSEndpoint, activePageCount,
                                 handles, pages>>)]_vars

\* in on-demand mode page() found the browser of an earlier page connected
C11_Witness ==
    \E p \in Procs :
        /\ Resumes(p, "pg_1")
        /\ proc[p].err = NoErr
        /\ proc[p].calls = 0
        /\ config.immediateClose
        /\ Connected
        /\ activePageCount > 0

\* C12: in on-demand mode, without a live handle, ensureConnected makes one
\* startBrowser call and returns: one launch at most, no reconnection loop
\* whatever the reconnect policy, and the error of a failed start is the
\* error of ensureConnected.
C12_OnDemandStartsOnce ==
    [][\A p \in Procs :
          /\ (EntersEnsureConnected(p) /\ config.immediateClose /\ ~Connected)
                 => \/ proc'[p].pc = "sb_launch" /\ proc'[p].calls = 1
                    \/ /\ Executable = Null
                       /\ proc'[p].pc = "ret"
                       /\ proc'[p].err.msg = "executable not found"
                       /\ proc'[p].calls = 0
          /\ (/\ config.immediateClose
              /\ proc[p].pc = "sb_launch"
              /\ proc[p].stack \in {<<"pg_1">>, <<"svg_1">>}
              /\ proc'[p].pc # "sb_launch")
                 => /\ proc'[p].pc = "ret"
                    /\ proc'[p].calls = 1
                    /\ \/ proc'[p].err = NoErr /\ browser' # 0
                                               /\ handles'[browser'] = "connected"
                       \/ proc'[p].err.msg = "launch failed"]_vars

\* in on-demand mode page() got the error of the launch it made
C12_Witness ==
    \E p \in Procs :
        /\ Resumes(p, "pg_1")
        /\ config.immediateClose
        /\ config.enableReconnect
        /\ proc[p].calls = 1
        /\ proc[p].err.msg = "launch failed"

\* C13: when the teardown check stops the browser, the page counter is 0 and
\* the browser has no page other than blank ones, whatever page() calls run
\* beside it.
C13_TeardownOnlyWhenUnused ==
    [][\A p \in Procs :
          (proc[p].pc = "ccb_pages" /\ proc'[p].pc = "stop_close")
              => (activePageCount = 0 /\ NonBlankPages(browser) = {})]_vars

\* C22: once stop() of the service has returned, after a start that
\* succeeded and any number of calls, nothing is left behind: the handle of
\* the session is null, the engine holds no open handle and no listener of
\* the FontServer is open.
C22_StopLeavesNothing ==
    svc = "stopped" =>
        /\ browser = 0
        /\ LiveHandles = {}
        /\ OpenListeners = {}

\* the step of caller p is the reply of the restart command
RestartReplies(p) == Resumes(p, "restart_2") /\ proc'[p].pc = "idle"

\* C23: the restart command never throws; when it reports success, with no
\* other operation in progress, the session holds a handle and the handle
\* it held before the restart is closed: no other handle is open.
C23_RestartReplacesHandle ==
    [][\A p \in Procs :
          (/\ RestartReplies(p)
           /\ proc[p].err = NoErr
           /\ \A q \in Procs \ {p} : Idle(q))
              => (/\ browser # 0
                  /\ LiveHandles \subseteq {browser})]_vars

\* the step of caller p issues the connect call of a reconnect attempt
IssuesAttempt(p) ==
    /\ proc'[p].pc = "ec_connect"
    /\ proc'[p].calls # proc[p].calls

\* the step of caller p is a connect call of ensureConnected that resolved
ReconnectResolves(p) ==
    /\ proc[p].pc \in {"ec_connect", "ec_fallback"}
    /\ proc'[p].pc = "ret"
    /\ proc'[p].err = NoErr

\* C25: the connect call of a reconnect attempt names the saved endpoint
\* when there is one and the configured endpoint (as a socket address or as
\* a discovery address, none when it is empty) only when there is none; when
\* a reconnect succeeds, the saved endpoint is the address of the new handle
\* by the time ensureConnected returns.
C25_SavedEndpointFirst ==
    [][\A p \in Procs :
          /\ IssuesAttempt(p) =>
                IF browserWSEndpoint # Null
                THEN proc'[p].connectOptions =
                         [browserWSEndpoint |-> browserWSEndpoint,
                          browserURL |-> Null]
                ELSE \/ proc'[p].connectOptions =
                            [browserWSEndpoint |-> config.endpoint,
                             browserURL |-> Null]
                     \/ proc'[p].connectOptions =
                            [browserWSEndpoint |-> Null,
                             browserURL |-> config.endpoint]
          /\ ReconnectResolves(p) =>
                /\ browser' # 0
                /\ browser' # browser
                /\ handles'[browser'] = "connected"
                /\ browserWSEndpoint' = WsEndpointOfHandle]_vars

\* a reconnect on the saved endpoint of a remote browser succeeded and the
\* address of the new handle replaced it
C25_Witness ==
    \E p \in Procs :
        /\ Resumes(p, "svg_1")
        /\ proc[p].err = NoErr
        /\ proc[p].calls = 1
        /\ config.remote
        /\ config.endpoint = Str_http \o Sep_slashes \o <<"h">>
        /\ proc[p].connectOptions.browserWSEndpoint = WsEndpointOfHandle
        /\ browserWSEndpoint = WsEndpointOfHandle
        /\ Connected

\* the step of caller p is the failure of an attempt's connect with a 404
AttemptFails404(p) ==
    /\ proc[p].pc = "ec_connect"
    /\ proc'[p].retryCount = proc[p].retryCount + 1
    /\ proc'[p].e = Err("404", "")

\* C26: when the connect of an attempt fails with a 404, the saved endpoint
\* is cleared and one connect on the configured endpoint is issued before
\* the retry budget is looked at, on the last attempt too; when that
\* connect resolves, ensureConnected returns with the new handle connected
\* and its address saved; when it fails, the budget check follows and no
\* further connect of this attempt.
C26_FallbackOnceBeforeBudget ==
    [][\A p \in Procs :
          /\ AttemptFails404(p) =>
                /\ browserWSEndpoint' = Null
                /\ proc'[p].pc = "ec_fallback"
                /\ proc'[p].calls = proc[p].calls + 1
                /\ proc'[p].fallbacks = proc[p].fallbacks + 1
                /\ \/ proc'[p].connectOptions =
                          [browserWSEndpoint |-> config.endpoint,
                           browserURL |-> Null]
                   \/ proc'[p].connectOptions =
                          [browserWSEndpoint |-> Null,
                           browserURL |-> config.endpoint]
          /\ (proc[p].pc = "ec_fallback" /\ proc'[p].pc # "ec_fallback") =>
                /\ proc'[p].calls = proc[p].calls
                /\ proc'[p].retryCount = proc[p].retryCount
                /\ \/ /\ proc'[p].pc = "ret"
                      /\ proc'[p].err = NoErr
                      /\ browser' # 0
                      /\ handles'[browser'] = "connected"
                      /\ browserWSEndpoint' = WsEndpointOfHandle
                   \/ /\ proc[p].retryCount >= maxRetries
                      /\ proc'[p].pc = "ret"
                      /\ proc'[p].err.msg = "reconnect failed"
                   \/ /\ proc[p].retryCount < maxRetries
                      /\ proc'[p].pc = "ec_backoff"]_vars

\* the only attempt allowed failed with a 404 and the fallback on the
\* configured endpoint of a remote browser brought the session back
C26_Witness ==
    \E p \in Procs :
        /\ Resumes(p, "svg_1")
        /\ proc[p].err = NoErr
        /\ proc[p].fallbacks = 1
        /\ proc[p].calls = 2
        /\ maxRetries = 1
        /\ proc[p].retryCount = 1
        /\ config.remote
        /\ Connected
        /\ browserWSEndpoint = WsEndpointOfHandle

C28_LinearBackoff ==
    \A p \in Procs :
        proc[p].pc = "ec_connect"
            => proc[p].slept = config.reconnectInterval * proc[p].retryCount

\* the step of caller p is the throw of the terminal error of the loop
GivesUp(p) ==
    /\ proc[p].pc \in {"ec_connect", "ec_fallback"}
    /\ proc'[p].pc = "ret"
    /\ proc'[p].err.msg = "reconnect failed"

\* C29: when ensureConnected throws the terminal error of an exhausted
\* reconnection, whatever the class of the errors, the saved endpoint is
\* empty.
C29_ExhaustionClearsEndpoint ==
    [][\A p \in Procs : GivesUp(p) => browserWSEndpoint' = Null]_vars

\* C30: in every state the session holds a handle only while it is
\* connected: this.browser is null unless the handle it names reports
\* connected, also after a connect or launch of startBrowser failed.
C30_HandleOnlyWhileConnected ==
    browser # 0 => handles[browser] = "connected"

\* caller p runs the service's start()
InStart(p) ==
    proc[p].stack # <<>> /\ proc[p].stack[Len(proc[p].stack)] = "start_1"

\* the errors of startBrowser that name the configuration
ConfigErrors ==
    {"endpoint required", "unparseable URL", "unsupported scheme",
     "executable not found"}

\* C31: one start() issues at most one connect or launch call and neither
\* sleeps nor retries; when it throws a configuration error it has issued no
\* engine call, and when it throws after its one call the error is the
\* wrapped error of that call.
C31_StartFailsFast ==
    \A p \in Procs :
        InStart(p)
            => /\ proc[p].calls <= 1
               /\ proc[p].retryCount = 0
               /\ proc[p].pc \in {"sb_connect", "sb_launch", "ret"}
               /\ proc[p].pc \in {"sb_connect", "sb_launch"}
                     => proc[p].calls = 1
               /\ (proc[p].pc = "ret" /\ proc[p].err.msg \in ConfigErrors)
                     => proc[p].calls = 0
               /\ (proc[p].pc = "ret" /\ proc[p].calls = 0)
                     => proc[p].err.msg \in ConfigErrors

\* a start() whose one connect call was refused has thrown
C31_Witness ==
    \E p \in Procs :
        /\ Resumes(p, "start_1")
        /\ proc[p].calls = 1
        /\ proc[p].err.msg = "cannot reach remote browser"

\* the step of caller p is the resumption of page() after newPage() resolved
PageCreated(p) == At(p, "pg_newPage") /\ proc'[p].pc = "pg_inject"

\* the step of caller p is the resumption of the wrapped close() after the
\* engine closed the page
PageClosed(p) ==
    /\ At(p, "cl_close")
    /\ pages[proc[p].page].open
    /\ ~pages'[proc[p].page].open

\* C32: in on-demand mode a page is counted in the step in which page()
\* resumes with the new page, and uncounted in the step in which close()
\* resumes after the engine's close: no other caller runs in between.
C32_CounterAtomicWithPage ==
    [][\A p \in Procs :
          /\ PageCreated(p) => activePageCount' = activePageCount + 1
          /\ PageClosed(p) => activePageCount' = activePageCount - 1]_vars

\* a page() call is in progress
PageRunning ==
    \E p \in Procs :
        \/ proc[p].pc \in {"pg_newPage", "pg_inject", "pg_goto"}
        \/ \E i \in 1..Len(proc[p].stack) :
               proc[p].stack[i] \in {"pg_1", "pg_catch"}

\* the wrapped close() has uncounted the last tracked page, and the browser
\* has no page left but blank ones
LastPageClosed ==
    /\ browser # 0
    /\ activePageCount = 0
    /\ NonBlankPages(browser) = {}
    /\ \E p \in Procs : At(p, "ccb_pages")

\* C33: in on-demand mode start() issues no launch call, and once the last
\* tracked page is closed with only blank pages left, the session is
\* stopped in the end (this.browser is null) unless a page() is called.
C33_LazyOpenEventualTeardown ==
    /\ [](\A p \in Procs : InStart(p) => proc[p].calls = 0 /\ proc[p].pc = "ret")
    /\ (LastPageClosed /\ ~PageRunning) ~> (browser = 0 \/ PageRunning)

\* the step of caller p is a call of stopBrowser by stop() or by the restart
\* command
StopBrowserCalled(p) ==
    Idle(p) /\ proc'[p].stack \in {<<"stop_1">>, <<"restart_1">>}

EnsureConnectedReturns(p) ==
    /\ proc[p].pc # "ret"
    /\ proc'[p].pc = "ret"
    /\ Head(proc'[p].stack) \in {"svg_1", "pg_1"}
    /\ proc'[p].err = NoErr

\* C35: whenever ensureConnected returns normally, this.browser is a handle
\* that reports connected, whatever the reconnect policy is.
C35_ReturnsConnected ==
    [][\A p \in Procs : EnsureConnectedReturns(p) => Connected']_vars

\* the step of caller p ends its render(): the callback returned or threw
RenderCompletes(p) == At(p, "rd_callback") /\ proc'[p].pc # "rd_callback"

\* C36: when render() completes, by returning the output or by throwing the
\* error of its callback, the page it created is closed or its close() has
\* been called.
C36_RenderClosesPage ==
    [][\A p \in Procs :
          RenderCompletes(p)
              => \/ ~pages'[proc[p].page].open
                 \/ /\ proc'[p].pc = "cl_close"
                    /\ proc'[p].page = proc[p].page]_vars

\* the stopBrowser of the service's stop() has returned
StopCompleted == svc = "stopped" \/ \E q \in Procs : Resumes(q, "stop_1")

\* C37: once the stopBrowser of stop() has returned, no connect or launch
\* that was issued before it installs a handle in the session: nothing
\* starts an operation on a stopped service, so this.browser is not set to a
\* handle again.
C37_StopNotUndone ==
    [][StopCompleted => (browser' = browser \/ browser' = 0)]_vars

\* the options name a socket address or a discovery address, and not both
NamesOneTarget(options) ==
    (options.browserWSEndpoint # Null) # (options.browserURL # Null)

\* C39: every connect call that ensureConnected issues, in an attempt or in
\* the 404 fallback, is given options that name exactly one target.
C39_EveryConnectNamesTarget ==
    [][\A p \in Procs :
          IssuesReconnect(p) => NamesOneTarget(proc'[p].connectOptions)]_vars

\* C40: with every connect call and every sleep completing, a caller that
\* is in the reconnection loop of ensureConnected leaves it, by a return or
\* a throw, and a call of ensureConnected issues 2 * maxRetries connect
\* calls at most, maxRetries = 0 included.
C40_TerminatesWithin2N ==
    /\ [](\A p \in Procs :
             (InReconnect(p) \/ Resumes(p, "svg_1"))
                 => proc[p].calls <= 2 * maxRetries)
    /\ \A p \in Procs : InReconnect(p) ~> ~InReconnect(p)

\* a reconnection gave up after two attempts that both failed with a 404,
\* with a fallback connect after each
C40_Witness ==
    \E p \in Procs :
        Exhausted(p) /\ maxRetries = 2 /\ proc[p].calls = 4

-----------------------------------------------------------------------------
(* Properties of the FontServer                                            *)

\* C14: in every state of the FontServer, while start() is suspended, after
\* a failed start() and after stop() as well, the port is non-null exactly
\* when the server is listening.
C14_PortIffListening ==
    port # 0 <=> (server # 0 /\ Listening(server))

\* the server listens on the port the object holds
Running == server # 0 /\ Listening(server) /\ port = servers[server].port

\* C15: start(path) on a server that runs with this path returns the URL of
\* the running listener again, closes nothing and binds no port.
C15_SamePathIsNoOp ==
    [][\A p \in Procs :
          (/\ FIdle(p)
           /\ fproc'[p].op = "start"
           /\ Running
           /\ fontPath = fproc'[p].path)
              => (/\ fproc'[p].pc = "ret"
                  /\ fproc'[p].result = UrlOf(servers[server].port)
                  /\ fproc'[p].created = 0
                  /\ UNCHANGED <<server, port, fontPath, servers>>)]_vars

\* a second start(path) got the URL of the running server
C15_Witness ==
    \E p \in Procs :
        /\ fproc[p].op = "start"
        /\ fproc[p].pc = "ret"
        /\ fproc[p].created = 0
        /\ fproc[p].path = fontPath
        /\ Running
        /\ fproc[p].result = UrlOf(port)

\* C16: start(path2) on a server that serves path1 closes the listener of
\* path1 before it opens one for path2: two listeners are never open.
C16_OneListener ==
    Cardinality(OpenListeners) <= 1

\* C17: start(path) with a path that names nothing, a directory or a file of
\* an unsupported extension fails, and that call creates no server and binds
\* no port.
C17_InvalidPathFailsEarly ==
    \A p \in Procs :
        (fproc[p].op = "start" /\ fproc[p].bad)
            => /\ fproc[p].created = 0
               /\ fproc[p].pc \notin {"st_port", "st_listen", "st_hung"}
               /\ fproc[p].pc = "ret" => fproc[p].result.kind = "error"

\* C18: stop() closes the listener and returns with the server, the path and
\* the port cleared, without error; on a stopped server it changes nothing.
C18_StopClearsServer ==
    [][\A p \in Procs :
          /\ (FIdle(p) /\ fproc'[p].op = "stop" /\ server # 0)
                => servers'[server].state # "listening"
          /\ (fproc'[p].op = "stop" /\ fproc'[p].pc = "ret"
                                    /\ fproc[p].pc # "ret")
                => (/\ fproc'[p].result = Returned
                    /\ server' = 0
                    /\ port' = 0
                    /\ fontPath' = Null)]_vars

\* C19: getFontUrl() throws whenever the server is not listening, and
\* otherwise returns the URL of the port the server listens on.
C19_UrlOnlyWhenListening ==
    [][\A p \in Procs :
          (FIdle(p) /\ fproc'[p].op \in {"getFontUrl", "Puppeteer.getFontUrl"})
              => IF server # 0 /\ Listening(server)
                 THEN fproc'[p].result = UrlOf(servers[server].port)
                 ELSE fproc'[p].result.kind # "url"]_vars

\* the step of caller p is the throw of its start(path)
StartFails(p) ==
    /\ fproc[p].op = "start"
    /\ fproc[p].pc # "ret"
    /\ fproc'[p].pc = "ret"
    /\ fproc'[p].result.kind = "error"

\* C38: when start(path) throws, the FontServer is as a start that changed
\* nothing leaves it: stopped with server, fontPath and port all null, or
\* listening for another path on the port it holds.
C38_FailedStartChangesNothing ==
    [][\A p \in Procs :
          StartFails(p)
              => \/ server' = 0 /\ fontPath' = Null /\ port' = 0
                 \/ /\ server' # 0
                    /\ (Listening(server))'
                    /\ fontPath' # fproc[p].path
                    /\ fontPath' = servers'[server'].path
                    /\ port' = servers'[server'].port]_vars

\* the targets whose path is /font or / and the name of the served file
FontRoutes ==
    {Target_font, Target_fontq}
        \cup (IF request.path = Path_a THEN {Target_a} ELSE {Target_B})

\* C20 (as stated): the status follows from the method and the path alone:
\* OPTIONS gets 200 without a body, a method other than GET and OPTIONS 405,
\* GET of /font or of the file's name 200 with the file's bytes, GET of any
\* other path 404.
C20_StatusByMethodAndPath ==
    response # NoResponse =>
        /\ request.method = "OPTIONS"
              => response.status = 200 /\ response.body = ""
        /\ request.method \notin {"GET", "OPTIONS"} => response.status = 405
        /\ (request.method = "GET" /\ request.target \in FontRoutes)
              => response.status = 200 /\ response.body = "fontData"
        /\ (request.method = "GET" /\ request.target \notin FontRoutes)
              => response.status = 404

\* the handler throws: the URL of the request does not parse, or the file of
\* a font route cannot be read
HandlerThrows ==
    \/ request.port = 0
    \/ request.target = Target_ss
    \/ request.target \in FontRoutes /\ ~request.readable

\* C20 (amended): OPTIONS gets 200 without a body and a method other than
\* GET and OPTIONS 405; a GET gets 500 when the URL of the request does not
\* parse or the file of a font route cannot be read, and otherwise 200 with
\* the file's bytes on /font and on the file's name, 404 on any other path.
C20_StatusWithErrors ==
    response # NoResponse =>
        /\ request.method = "OPTIONS"
              => response.status = 200 /\ response.body = ""
        /\ request.method \notin {"GET", "OPTIONS"} => response.status = 405
        /\ (request.method = "GET" /\ HandlerThrows) => response.status = 500
        /\ (request.method = "GET" /\ ~HandlerThrows
                                   /\ request.target \in FontRoutes)
              => response.status = 200 /\ response.body = "fontData"
        /\ (request.method = "GET" /\ ~HandlerThrows
                                   /\ request.target \notin FontRoutes)
              => response.status = 404

\* a GET of /font found the file unreadable
C20_Witness ==
    /\ response.status = 500
    /\ request.method = "GET"
    /\ request.target = Target_font
    /\ request.port # 0
    /\ ~request.readable

\* the response carries the three headers that admit cross-origin requests
HasCors ==
    /\ <<"Access-Control-Allow-Origin", "*">> \in response.headers
    /\ <<"Access-Control-Allow-Methods", "GET, OPTIONS">> \in response.headers
    /\ <<"Access-Control-Allow-Headers", "Content-Type">> \in response.headers

\* the response carries the directive to cache it for one year
HasCache ==
    <<"Cache-Control", "public, max-age=31536000">> \in response.headers

\* C21 (as stated): every response, whatever its status, carries the CORS
\* headers and the one-year cache directive.
C21_CorsAndCacheOnEveryResponse ==
    response # NoResponse => HasCors /\ HasCache

\* C21 (amended): every response, whatever its status, carries the CORS
\* headers; the one-year cache directive is on the 200 response that
\* carries the font and on no other response.
C21_CorsEverywhereCacheOnFont ==
    response # NoResponse =>
        /\ HasCors
        /\ HasCache <=> (response.status = 200 /\ response.body = "fontData")

\* a GET of another path got a 404 with the CORS headers and no directive
C21_Witness ==
    /\ response.status = 404
    /\ request.method = "GET"
    /\ HasCors
    /\ ~HasCache

-----------------------------------------------------------------------------
(* Properties of the endpoint classification                               *)

\* C24: for every configured endpoint the reconnect attempt and the 404
\* fallback choose the target that startBrowser chooses, and where
\* startBrowser rejects the endpoint they issue no connect call either.
C24_SameClassification ==
    output.start # "" =>
        /\ output.reconnect = output.start
        /\ output.fallback = output.start

\* the string scheme ++ sep ++ rest is a URL: a scheme name directly before
\* a colon and, for the schemes that need one, a host
Parseable ==
    /\ parts[1] \in {Str_ws, Str_wss, Str_WS, Str_http, Str_https, Str_ftp, Str_x}
    /\ parts[2] # Null
    /\ (parts[1] # Str_x => parts[3] \in {<<"h">>, <<"h", "/", "p">>, <<"/", "h">>})

\* C10: ws and wss addresses are classified DirectSocket, http and https
\* addresses Discovery, every other string Invalid, with the reason
\* 'unsupported scheme' for a URL of another scheme and 'unparseable URL' for
\* a string that is no URL.
C10_Classification ==
    output # "" =>
        /\ output = "DirectSocket"
              <=> (Parseable /\ parts[1] \in {Str_ws, Str_wss, Str_WS})
        /\ output = "Discovery"
              <=> (Parseable /\ parts[1] \in {Str_http, Str_https})
        /\ output = "Invalid: unsupported scheme"
              <=> (Parseable /\ parts[1] \in {Str_ftp, Str_x})
        /\ output = "Invalid: unparseable URL"
              <=> (~Parseable /\ input # Null)
        /\ output = "Invalid: endpoint required" <=> input = Null

\* a wss address was classified
C10_Witness ==
    /\ output = "DirectSocket"
    /\ parts[1] = Str_wss
    /\ parts[2] = Sep_slashes


====
